---------------------------- MODULE Spec2Model ----------------------------
(***************************************************************************)
(* Model of colour-maya's plots.py: the module load, the eight public      *)
(* functions, the Autodesk Maya scene they drive and the colour library    *)
(* they call.  Every statement of a function that reaches the host is one  *)
(* step; a host call may fail at any step, and an exception unwinds the    *)
(* call stack one frame at a time (no function has a handler).             *)
(*                                                                         *)
(* Numbers: Python floats that are lengths (translations, vertex           *)
(* positions, RGB components) are fixed-point integers with denominator    *)
(* `unit`; angles are degrees; Python True / False are 1 / 0.              *)
(***************************************************************************)
EXTENDS Integers, Sequences, FiniteSets, TLC

(* ------------------------------ bounds --------------------------------- *)

\* polyCube subdivisions tried by the callers: density \in 1..MaxDensity.
MaxDensity == 2

\* dict iteration orders tried: hashSeed \in 0..MaxHashSeed.
MaxHashSeed == 2

(* --------------------------- small helpers ----------------------------- *)

Range(s) == {s[i] : i \in DOMAIN s}

Last(s) == s[Len(s)]

Front(s) == SubSeq(s, 1, Len(s) - 1)

RECURSIVE Reverse(_)
Reverse(s) == IF s = <<>> THEN <<>> ELSE Append(Reverse(Tail(s)), Head(s))

Rotate(s, k) ==
    IF s = <<>> THEN <<>>
    ELSE LET r == k % Len(s) IN SubSeq(s, r + 1, Len(s)) \o SubSeq(s, 1, r)

(* ----------------------- Python values (results) ----------------------- *)

Val(kind, s, l, p) == [kind |-> kind, s |-> s, l |-> l, p |-> p]
NoValue == Val("unset", "", <<>>, <<>>)
PyNone == Val("None", "", <<>>, <<>>)
PyTrue == Val("bool", "True", <<>>, <<>>)
PyStr(s) == Val("str", s, <<>>, <<>>)
PyList(l) == Val("list", "", l, <<>>)
MDagPath(path) == Val("MDagPath", path, <<>>, <<>>)
MPoint(x, y, z) == Val("MPoint", "", <<>>, <<x, y, z>>)

\* numpy: an array is its shape and its flattened data.
NdArray(shape, data) == Val("ndarray", "", <<>>, <<shape, data>>)
np_array(t) == NdArray(<<Len(t)>>, t)
np_ravel(a) == NdArray(<<Len(a.p[2])>>, a.p[2])
py_tuple(a) == a.p[2]

NoExc == [type |-> "none", cmd |-> ""]

(* ------------------- the colour library (plots.py:21-22) --------------- *)

ILLUMINANTS ==
    [o \in {"CIE 1931 2 Degree Standard Observer"} |->
        [n \in {"D50", "D65", "E"} |->
            CASE n = "D50" -> <<35, 36>>
              [] n = "D65" -> <<31, 33>>
              [] n = "E" -> <<33, 33>>]]

xy_to_XYZ(xy) == <<xy[1], xy[2], 100 - xy[1] - xy[2]>>

MatVec(M, v) ==
    [i \in 1..3 |-> M[i][1] * v[1] + M[i][2] * v[2] + M[i][3] * v[3]]

ConeMatrix(method) ==
    CASE method = "Bradford" -> <<<<9, 3, -2>>, <<-7, 17, 0>>, <<0, 0, 10>>>>
      [] method = "CAT02" -> <<<<7, 4, -2>>, <<-7, 16, 0>>, <<0, 0, 10>>>>
      [] OTHER -> <<<<10, 0, 0>>, <<0, 10, 0>>, <<0, 0, 10>>>>

ApplyTransfer(f, v) ==
    CASE f = "square" -> v * v
      [] f = "double" -> 2 * v
      [] OTHER -> v

\* colour.models.RGB_to_XYZ: decode, matrix, chromatic adaptation; the result
\* is a (3, 1) column vector.
RGB_to_XYZ(RGB, illuminant_RGB, illuminant_XYZ, to_XYZ, cat, itf) ==
    LET rgb == RGB.p[2]
        lin == [i \in 1..3 |-> ApplyTransfer(itf, rgb[i])]
        XYZ == MatVec(to_XYZ, lin)
        cone == MatVec(ConeMatrix(cat), XYZ)
        src == MatVec(ConeMatrix(cat), xy_to_XYZ(illuminant_RGB))
        dst == MatVec(ConeMatrix(cat), xy_to_XYZ(illuminant_XYZ))
    IN NdArray(<<3, 1>>, [i \in 1..3 |-> (cone[i] * dst[i]) \div src[i]])

\* colour.models.XYZ_to_Lab: whitepoint-relative ratios, then L, a, b.
XYZ_to_Lab(XYZ, illuminant) ==
    LET v == XYZ.p[2]
        w == xy_to_XYZ(illuminant)
        f == [i \in 1..3 |-> (v[i] * 10) \div w[i]]
    IN NdArray(<<3, 1>>,
               <<116 * f[2] - 16, 5 * (f[1] - f[2]), 2 * (f[2] - f[3])>>)

\* The colourspaces handed to the functions (RGB_Colourspace objects).
Colourspaces ==
    { [name |-> "sRGB", whitepoint |-> <<31, 33>>,
       to_XYZ |-> <<<<4, 4, 2>>, <<2, 7, 1>>, <<0, 1, 9>>>>,
       inverse_transfer_function |-> "square"],
      [name |-> "ACES", whitepoint |-> <<32, 34>>,
       to_XYZ |-> <<<<9, 0, 0>>, <<3, 7, 0>>, <<0, 0, 10>>>>,
       inverse_transfer_function |-> "linear"] }

(* ------------------------- RGB_to_Lab (131-156) ------------------------ *)

RGB_to_Lab_WrongIlluminant(RGB, colourspace) ==
    XYZ_to_Lab(
        RGB_to_XYZ(np_array(RGB),
                   colourspace.whitepoint,
                   ILLUMINANTS["CIE 1931 2 Degree Standard Observer"]["D65"],
                   colourspace.to_XYZ,
                   "Bradford",
                   colourspace.inverse_transfer_function),
        colourspace.whitepoint)

RGB_to_Lab(RGB, colourspace) ==
    XYZ_to_Lab(
        RGB_to_XYZ(np_array(RGB),
                   colourspace.whitepoint,
                   ILLUMINANTS["CIE 1931 2 Degree Standard Observer"]["E"],
                   colourspace.to_XYZ,
                   "Bradford",
                   colourspace.inverse_transfer_function),
        colourspace.whitepoint)

(* --------------------------- the Maya scene ---------------------------- *)

\* A DAG node.  points / colours are a mesh's vertex positions (object space)
\* and vertex colours; faces its face ids.
Node(type, parent, children, points, colours, faces, intermediate) ==
    [type |-> type, parent |-> parent, children |-> children,
     points |-> points, colours |-> colours, faces |-> faces,
     intermediate |-> intermediate]

Transform(parent, children) ==
    Node("transform", parent, children, <<>>, <<>>, {}, FALSE)

ShapeTypes == {"mesh", "nurbsCurve"}

\* The scene the script starts in: an object with a shape and an intermediate
\* shape, and an empty transform.
InitialNodes ==
    ("obj" :> Transform("", <<"objShape", "objShapeOrig">>))
    @@ ("objShape" :>
          Node("mesh", "obj", <<>>, <<<<0, 0, 0>>>>, <<>>, {0}, FALSE))
    @@ ("objShapeOrig" :>
          Node("mesh", "obj", <<>>, <<<<0, 0, 0>>>>, <<>>, {0}, TRUE))
    @@ ("null1" :> Transform("", <<>>))

InitialScene ==
    [nodes |-> InitialNodes,
     attrs |-> <<>>,
     selection |-> <<>>,
     prefs |-> <<>>]

Exists(sc, n) == n \in DOMAIN sc.nodes

\* Maya's numbering of new nodes: the first free base<k>.
UniqueName(nodes, base) ==
    LET k == CHOOSE k \in 1..(Cardinality(DOMAIN nodes) + 1) :
                 /\ (base \o ToString(k)) \notin DOMAIN nodes
                 /\ \A j \in 1..(k - 1) : (base \o ToString(j)) \in DOMAIN nodes
    IN base \o ToString(k)

\* '{0}.translateX'.format(cube): the attribute's plug.
Plug(node, attr) == <<node, attr>>

AttrDefault(attr) == IF attr \in {"scaleX", "scaleY", "scaleZ"} THEN 1 ELSE 0

GetAttr(sc, node, attr) ==
    IF Plug(node, attr) \in DOMAIN sc.attrs
    THEN sc.attrs[Plug(node, attr)]
    ELSE AttrDefault(attr)

RECURSIVE PathOf(_, _)
PathOf(nodes, n) ==
    IF nodes[n].parent = "" THEN "|" \o n
    ELSE PathOf(nodes, nodes[n].parent) \o "|" \o n

RECURSIVE Descendants(_, _)
Descendants(nodes, n) ==
    {n} \cup UNION {Descendants(nodes, c) : c \in Range(nodes[n].children)}

SeqWithout(s, drop) == SelectSeq(s, LAMBDA x : x \notin drop)

\* Rotations by multiples of 90 degrees, the only ones the script sets.
RotX(p, a) ==
    CASE a % 360 = 90 -> <<p[1], -p[3], p[2]>>
      [] a % 360 = 180 -> <<p[1], -p[2], -p[3]>>
      [] a % 360 = 270 -> <<p[1], p[3], -p[2]>>
      [] OTHER -> p

RotY(p, a) ==
    CASE a % 360 = 90 -> <<p[3], p[2], -p[1]>>
      [] a % 360 = 180 -> <<-p[1], p[2], -p[3]>>
      [] a % 360 = 270 -> <<-p[3], p[2], p[1]>>
      [] OTHER -> p

RotZ(p, a) ==
    CASE a % 360 = 90 -> <<-p[2], p[1], p[3]>>
      [] a % 360 = 180 -> <<-p[1], -p[2], p[3]>>
      [] a % 360 = 270 -> <<p[2], -p[1], p[3]>>
      [] OTHER -> p

\* A transform node's matrix applied to a point: scale, rotate (xyz order),
\* translate.
ToWorld(sc, node, p) ==
    LET s == <<p[1] * GetAttr(sc, node, "scaleX"),
               p[2] * GetAttr(sc, node, "scaleY"),
               p[3] * GetAttr(sc, node, "scaleZ")>>
        r == RotZ(RotY(RotX(s, GetAttr(sc, node, "rotateX")),
                       GetAttr(sc, node, "rotateY")),
                  GetAttr(sc, node, "rotateZ"))
    IN <<r[1] + GetAttr(sc, node, "translateX"),
         r[2] + GetAttr(sc, node, "translateY"),
         r[3] + GetAttr(sc, node, "translateZ")>>

WorldPoints(sc, shape) ==
    LET n == sc.nodes[shape]
    IN IF n.parent = "" THEN n.points
       ELSE [i \in DOMAIN n.points |-> ToWorld(sc, n.parent, n.points[i])]

ShapesOf(sc, node) ==
    SelectSeq(sc.nodes[node].children,
              LAMBDA c : sc.nodes[c].type \in ShapeTypes)

\* The mesh a DAG path resolves to: the node itself, or a transform's first
\* mesh shape.
MeshOf(sc, node) ==
    IF sc.nodes[node].type = "mesh" THEN node
    ELSE LET m == SelectSeq(sc.nodes[node].children,
                            LAMBDA c : sc.nodes[c].type = "mesh")
         IN IF m = <<>> THEN "" ELSE m[1]

(* ------------------------ host commands (cmds) ------------------------- *)

\* The vertices of polyCube(w, h, d, sx, sy, sz): the grid points on the
\* surface of a box centred at the origin, lengths in 1/unit.
PolyCubePoints(unit, w, h, d, sx, sy, sz) ==
    LET n == (sx + 1) * (sy + 1) * (sz + 1)
        I(m) == (m - 1) % (sx + 1)
        J(m) == ((m - 1) \div (sx + 1)) % (sy + 1)
        K(m) == (m - 1) \div ((sx + 1) * (sy + 1))
        grid == [m \in 1..n |-> <<I(m), J(m), K(m)>>]
        surface == SelectSeq(grid, LAMBDA g :
                       \/ g[1] \in {0, sx}
                       \/ g[2] \in {0, sy}
                       \/ g[3] \in {0, sz})
    IN [m \in DOMAIN surface |->
           << (surface[m][1] * w * unit) \div sx - (w * unit) \div 2,
              (surface[m][2] * h * unit) \div sy - (h * unit) \div 2,
              (surface[m][3] * d * unit) \div sz - (d * unit) \div 2 >>]

PolyCubeFaces(sx, sy, sz) == 0..(2 * (sx * sy + sy * sz + sx * sz) - 1)

AddNode(sc, name, node) ==
    LET withNode == (name :> node) @@ sc.nodes
    IN [sc EXCEPT !.nodes =
           IF node.parent = "" THEN withNode
           ELSE [withNode EXCEPT ![node.parent].children = Append(@, name)]]

\* A transform with one mesh shape under it, as the polygon commands create.
AddMesh(sc, base, points, faces) ==
    LET t == UniqueName(sc.nodes, base)
        sh == UniqueName(sc.nodes, base \o "Shape")
    IN AddNode(AddNode(sc, t, Transform("", <<>>)),
               sh, Node("mesh", t, <<>>, points, <<>>, faces, FALSE))

\* cmds.polyCube(..., ch=False)[0]
polyCube_name(sc) == UniqueName(sc.nodes, "pCube")

polyCube(sc, unit, w, h, d, sx, sy, sz) ==
    AddMesh(sc, "pCube", PolyCubePoints(unit, w, h, d, sx, sy, sz),
            PolyCubeFaces(sx, sy, sz))

\* cmds.createNode('transform')
createNode_name(sc) == UniqueName(sc.nodes, "transform")

createNode(sc) == AddNode(sc, createNode_name(sc), Transform("", <<>>))

\* cmds.setAttr(plug, value): the node must exist.
setAttr_ok(sc, plug) == Exists(sc, plug[1])

setAttr(sc, plug, value) == [sc EXCEPT !.attrs = (plug :> value) @@ @]

\* cmds.listRelatives(object, fullPath=, shapes=True, noIntermediate=):
\* None when there is nothing to list.
listRelatives_shapes(sc, object, full_path, no_intermediate) ==
    LET shapes == SelectSeq(ShapesOf(sc, object), LAMBDA c :
                      ~(no_intermediate /\ sc.nodes[c].intermediate))
    IN IF shapes = <<>> THEN PyNone
       ELSE PyList([i \in DOMAIN shapes |->
                       IF full_path THEN PathOf(sc.nodes, shapes[i])
                       ELSE shapes[i]])

\* cmds.listRelatives(node): the children, None when there are none.
listRelatives_children(sc, node) ==
    IF sc.nodes[node].children = <<>> THEN PyNone
    ELSE PyList(sc.nodes[node].children)

RECURSIVE Dedupe(_)
Dedupe(s) ==
    IF s = <<>> THEN <<>>
    ELSE LET f == Dedupe(Front(s))
         IN IF Last(s) \in Range(f) THEN f ELSE Append(f, Last(s))

\* cmds.listRelatives(nodes, parent=True): the parents, each once.
listRelatives_parent(sc, ns) ==
    LET ps == Dedupe([i \in DOMAIN ns |-> sc.nodes[ns[i]].parent])
        real == SelectSeq(ps, LAMBDA x : x # "")
    IN IF real = <<>> THEN PyNone ELSE PyList(real)

\* cmds.makeIdentity(node, apply=True, t=True, r=True, s=True): the
\* transform is baked into the shapes' points and reset.
makeIdentity(sc, node) ==
    LET meshes == {c \in Range(sc.nodes[node].children) :
                      sc.nodes[c].type = "mesh"}
        frozen == {Plug(node, a) : a \in
                      {"translateX", "translateY", "translateZ",
                       "rotateX", "rotateY", "rotateZ",
                       "scaleX", "scaleY", "scaleZ"}}
    IN [sc EXCEPT
          !.nodes = [n \in DOMAIN sc.nodes |->
                       IF n \in meshes
                       THEN [sc.nodes[n] EXCEPT !.points = WorldPoints(sc, n)]
                       ELSE sc.nodes[n]],
          !.attrs = [k \in (DOMAIN sc.attrs) \ frozen |-> sc.attrs[k]]]

SetAttrs(sc, node, pairs) ==
    [sc EXCEPT !.attrs =
        [k \in DOMAIN sc.attrs \cup {Plug(node, q[1]) : q \in pairs} |->
            IF \E q \in pairs : Plug(node, q[1]) = k
            THEN (CHOOSE q \in pairs : Plug(node, q[1]) = k)[2]
            ELSE sc.attrs[k]]]

\* cmds.xform(node, a=True, rotatePivot=(0, 0, 0), scalePivot=(0, 0, 0))
xform_pivots(sc, node) ==
    SetAttrs(sc, node,
             {<<"rotatePivotX", 0>>, <<"rotatePivotY", 0>>,
              <<"rotatePivotZ", 0>>, <<"scalePivotX", 0>>,
              <<"scalePivotY", 0>>, <<"scalePivotZ", 0>>})

\* cmds.xform(node, cp=True): the pivots go to the bounding box's centre
\* (the label meshes carry no modelled geometry: the origin).
xform_cp(sc, node) == xform_pivots(sc, node)

\* cmds.xform(node, translation=(0, 0, 0), absolute=True)
xform_translation(sc, node) ==
    SetAttrs(sc, node,
             {<<"translateX", 0>>, <<"translateY", 0>>, <<"translateZ", 0>>})

\* cmds.rename(node, name): the name Maya gives (name, or name<k> when taken).
rename_name(sc, name) ==
    IF name \in DOMAIN sc.nodes THEN UniqueName(sc.nodes, name) ELSE name

rename(sc, node, name) ==
    LET new == rename_name(sc, name)
        R(x) == IF x = node THEN new ELSE x
        old == sc.nodes
    IN [sc EXCEPT
          !.nodes = [n \in {R(x) : x \in DOMAIN old} |->
                       LET o == IF n = new THEN old[node] ELSE old[n]
                       IN [o EXCEPT !.parent = R(@),
                                    !.children = [i \in DOMAIN @ |-> R(@[i])]]],
          !.attrs = [k \in {<<R(q[1]), q[2]>> : q \in DOMAIN sc.attrs} |->
                       IF k[1] = new THEN sc.attrs[<<node, k[2]>>]
                       ELSE sc.attrs[k]],
          !.selection = [i \in DOMAIN @ |-> [@[i] EXCEPT !.node = R(@)]]]

\* cmds.parent(child, parent)
parent(sc, child, newParent) ==
    LET oldParent == sc.nodes[child].parent
        detached == IF oldParent = "" THEN sc.nodes
                    ELSE [sc.nodes EXCEPT ![oldParent].children =
                             SeqWithout(@, {child})]
    IN [sc EXCEPT !.nodes =
           [detached EXCEPT ![child].parent = newParent,
                            ![newParent].children = Append(@, child)]]

\* A selection item: a node, or a range of its faces ('{0}.f[lo:hi]').
Item(node, comp, lo, hi) == [node |-> node, comp |-> comp, lo |-> lo, hi |-> hi]
WholeNode(node) == Item(node, "", 0, 0)
FaceRange(node, lo, hi) == Item(node, "f", lo, hi)

\* cmds.select(items)
select(sc, items) == [sc EXCEPT !.selection = items]

DeleteNodes(sc, ns) ==
    LET gone == UNION {Descendants(sc.nodes, n) : n \in ns}
    IN [sc EXCEPT
          !.nodes = [n \in (DOMAIN sc.nodes) \ gone |->
                       [sc.nodes[n] EXCEPT !.children = SeqWithout(@, gone)]],
          !.attrs = [k \in {q \in DOMAIN sc.attrs : q[1] \notin gone} |->
                       sc.attrs[k]],
          !.selection = SelectSeq(@, LAMBDA it : it.node \notin gone)]

\* cmds.delete(): the selected nodes, and the selected faces of the others.
delete_selection(sc) ==
    LET sel == sc.selection
        ns == {sel[i].node : i \in {j \in DOMAIN sel : sel[j].comp = ""}}
        faces(n) == UNION {sel[i].lo..sel[i].hi :
                             i \in {j \in DOMAIN sel :
                                      sel[j].comp = "f" /\ sel[j].node = n}}
        trimmed == [sc EXCEPT !.nodes =
                      [n \in DOMAIN sc.nodes |->
                         IF sc.nodes[n].type = "mesh"
                         THEN [sc.nodes[n] EXCEPT !.faces =
                                  @ \ faces(sc.nodes[n].parent)]
                         ELSE sc.nodes[n]]]
    IN [DeleteNodes(trimmed, ns) EXCEPT !.selection = <<>>]

\* cmds.delete(nodes)
delete(sc, ns) == DeleteNodes(sc, Range(ns))

\* cmds.nurbsToPolygonsPref(polyType=1, chordHeightRatio=0.975)
nurbsToPolygonsPref(sc) ==
    [sc EXCEPT !.prefs = [polyType |-> 1, chordHeightRatio |-> 975]]

RECURSIVE AddGlyphs(_, _, _)
AddGlyphs(sc, top, n) ==
    IF n = 0 THEN sc
    ELSE LET before == AddGlyphs(sc, top, n - 1)
             char == UniqueName(before.nodes, "Char_")
             curve == UniqueName(before.nodes, "curve")
         IN AddNode(AddNode(before, char, Transform(top, <<>>)),
                    curve,
                    Node("nurbsCurve", char, <<>>, <<>>, <<>>, {}, FALSE))

\* cmds.textCurves(f=font, t=text)[0]: a transform holding one transform per
\* character, each with its curve.
textCurves_name(sc) == UniqueName(sc.nodes, "Text_")

textCurves(sc, text) ==
    AddGlyphs(AddNode(sc, textCurves_name(sc), Transform("", <<>>)),
              textCurves_name(sc), Len(text))

\* cmds.planarSrf(x, ch=False, o=True, po=1): a polygon surface.
planarSrf_name(sc) == UniqueName(sc.nodes, "planarTrimmedSurface")

planarSrf(sc, x) == AddMesh(sc, "planarTrimmedSurface", <<>>, {0})

\* cmds.polyUnite(*objects, ch=False)[0]: one mesh of the objects' faces; the
\* objects are gone.
polyUnite_name(sc, objects) ==
    UniqueName(DeleteNodes(sc, Range(objects)).nodes, "polySurface")

RECURSIVE FaceCount(_, _)
FaceCount(sc, objects) ==
    IF objects = <<>> THEN 0
    ELSE Cardinality(sc.nodes[MeshOf(sc, Head(objects))].faces)
         + FaceCount(sc, Tail(objects))

polyUnite(sc, objects) ==
    AddMesh(DeleteNodes(sc, Range(objects)), "polySurface", <<>>,
            0..(FaceCount(sc, objects) - 1))

\* cmds.polyColorPerVertex(rgb=, cdo=True), on the selection.
polyColorPerVertex(sc, rgb) ==
    LET meshes == {MeshOf(sc, sc.selection[i].node) : i \in DOMAIN sc.selection}
    IN [sc EXCEPT
          !.nodes = [n \in DOMAIN sc.nodes |->
                       IF n \in meshes
                       THEN [sc.nodes[n] EXCEPT !.colours =
                                [v \in 0..(Len(sc.nodes[n].points) - 1) |-> rgb]]
                       ELSE sc.nodes[n]],
          !.attrs = [k \in DOMAIN sc.attrs \cup
                            {Plug(m, "displayColors") : m \in meshes} |->
                       IF k[2] = "displayColors" /\ k[1] \in meshes THEN 1
                       ELSE sc.attrs[k]]]

(* ------------------------ host objects (OpenMaya) ---------------------- *)

\* MFnMesh.setVertexColors(colours, indices, None)
setVertexColors(sc, mesh, colours, indices) ==
    [sc EXCEPT !.nodes[mesh].colours =
        [v \in DOMAIN @ \cup Range(indices) |->
            IF v \in Range(indices)
            THEN colours[CHOOSE i \in DOMAIN indices : indices[i] = v]
            ELSE @[v]]]

\* MItMeshVertex.position(MSpace.kObject), for the vertex the iterator is at.
position(sc, it) == sc.nodes[it.mesh].points[it.index + 1]

\* MItMeshVertex.setPosition(point)
setPosition(sc, it, point) ==
    [sc EXCEPT !.nodes[it.mesh].points[it.index + 1] = point]

\* MItMeshVertex.isDone()
isDone(sc, it) == it.index >= Len(sc.nodes[it.mesh].points)

(* ------------------------------ Python --------------------------------- *)

RECURSIVE DictLiteral(_)
\* {k1: v1, k2: v2, ...}: a key written twice keeps its first place and its
\* last value.
DictLiteral(pairs) ==
    IF pairs = <<>> THEN <<>>
    ELSE LET d == DictLiteral(Front(pairs))
             kv == Last(pairs)
         IN IF \E i \in DOMAIN d : d[i][1] = kv[1]
            THEN [i \in DOMAIN d |-> IF d[i][1] = kv[1] THEN kv ELSE d[i]]
            ELSE Append(d, kv)

Items_SkipFirst(d, seed) ==
    LET r == Rotate(d, seed \div 2)
        o == IF seed % 2 = 1 THEN Reverse(r) ELSE r
    IN IF o = <<>> THEN o ELSE Tail(o)

\* dict.items(): every entry once, in the order the interpreter's hashing
\* gives (seed 0 is the order of insertion).
Items(d, seed) ==
    LET r == Rotate(d, seed \div 2)
    IN IF seed % 2 = 1 THEN Reverse(r) ELSE r

Frame(fn, pc, v) == [fn |-> fn, pc |-> pc, v |-> v]

(* ------------------------------- state --------------------------------- *)

VARIABLES
    phase,      \* "unloaded", "load_failed", "loaded", "running", "done"
    bound,      \* the host modules the module's namespace binds
    hashSeed,   \* the interpreter's dict ordering
    unit,       \* the denominator of the fixed-point lengths
    importExc,  \* what the import of the host API raised, "none" when nothing
    call,       \* the caller's call: the function and its arguments
    stack,      \* the Python call stack, innermost frame last
    ret,        \* the value the last return handed back
    exc,        \* the exception in flight, NoExc when none
    scene,      \* the Maya scene
    log         \* every host call issued, in order, with its outcome

vars == <<phase, bound, importExc, hashSeed, unit, call, stack, ret, exc, scene, log>>

Top == stack[Len(stack)]

Host(api, cmd, args) == [api |-> api, cmd |-> cmd, args |-> args]
NoHost == Host("", "", <<>>)

Entry(h, ok, result) ==
    [api |-> h.api, cmd |-> h.cmd, args |-> h.args, ok |-> ok,
     result |-> result]

Init ==
    /\ phase = "unloaded"
    /\ bound = {}
    /\ importExc = "none"
    /\ hashSeed \in 0..MaxHashSeed
    /\ unit = 1
    /\ call = Frame("", "", <<>>)
    /\ stack = <<>>
    /\ ret = NoValue
    /\ exc = NoExc
    /\ scene = InitialScene
    /\ log = <<>>

(* ----------------------- module load (15-22) --------------------------- *)

ImportOutcomes == {"ok", "ImportError", "RuntimeError"}

\* What `except ImportError` lets through.
Swallowed_Bare(e) == TRUE

Swallowed(e) == e = "ImportError"

\* try: import maya.cmds as cmds; import maya.OpenMaya as OpenMaya
\* except ImportError: pass
ModuleLoad ==
    /\ phase = "unloaded"
    /\ \E o1 \in ImportOutcomes, o2 \in ImportOutcomes :
          LET raised == IF o1 # "ok" THEN o1 ELSE IF o2 # "ok" THEN o2 ELSE "none"
          IN /\ o1 # "ok" => o2 = "ok"
             /\ bound' = (IF o1 = "ok" THEN {"cmds"} ELSE {})
                         \cup (IF o1 = "ok" /\ o2 = "ok" THEN {"OpenMaya"} ELSE {})
             /\ importExc' = raised
             /\ IF raised = "none" \/ Swallowed(raised)
                THEN phase' = "loaded" /\ exc' = NoExc
                ELSE phase' = "load_failed"
                     /\ exc' = [type |-> raised, cmd |-> "import"]
    /\ UNCHANGED <<hashSeed, unit, call, stack, ret, scene, log>>

(* ------------------------- frames of the functions --------------------- *)

New_get_dag_path(node) ==
    Frame("get_dag_path", "MSelectionList",
          [node |-> node, selection_list |-> <<>>, dag_path |-> NoValue])

New_get_mpoint(point) == Frame("get_mpoint", "MPoint", [point |-> point])

New_get_shapes(object, full_path, no_intermediate) ==
    Frame("get_shapes", "listRelatives",
          [object |-> object, full_path |-> full_path,
           no_intermediate |-> no_intermediate, object_shapes |-> <<>>])

New_set_attributes(attributes, seed) ==
    Frame("set_attributes", "for",
          [attributes |-> attributes, items |-> Items(attributes, seed)])

New_RGB_to_Lab(RGB, colourspace) ==
    Frame("RGB_to_Lab", "return", [RGB |-> RGB, colourspace |-> colourspace])

(* --------------- the host call each statement is about to make --------- *)

HostCall_get_dag_path(f) ==
    CASE f.pc = "MSelectionList" -> Host("OpenMaya", "MSelectionList", <<>>)
      [] f.pc = "add" -> Host("OpenMaya", "MSelectionList.add", <<f.v.node>>)
      [] f.pc = "MDagPath" -> Host("OpenMaya", "MDagPath", <<>>)
      [] f.pc = "getDagPath" ->
           Host("OpenMaya", "MSelectionList.getDagPath", <<0>>)
      [] OTHER -> NoHost

HostCall_get_mpoint(f) ==
    CASE f.pc = "MPoint" ->
           Host("OpenMaya", "MPoint",
                <<f.v.point[1], f.v.point[2], f.v.point[3]>>)
      [] OTHER -> NoHost

HostCall_get_shapes(f) ==
    CASE f.pc = "listRelatives" ->
           Host("cmds", "listRelatives",
                <<f.v.object, f.v.full_path, TRUE, f.v.no_intermediate>>)
      [] OTHER -> NoHost

HostCall_set_attributes(f) ==
    CASE f.pc = "for" /\ f.v.items # <<>> ->
           Host("cmds", "setAttr", Head(f.v.items))
      [] OTHER -> NoHost

New_RGB_identity_cube(name, density) ==
    Frame("RGB_identity_cube", "polyCube",
          [name |-> name, density |-> density, cube |-> "",
           vertex_colour_array |-> <<>>, vertex_index_array |-> <<>>,
           point_array |-> <<>>, fn_mesh |-> "", n |-> 0, i |-> 0])

New_Lab_colourspace_cube(colourspace, density) ==
    Frame("Lab_colourspace_cube", "RGB_identity_cube",
          [colourspace |-> colourspace, density |-> density, cube |-> "",
           it_mesh_vertex |-> [mesh |-> "", index |-> 0],
           position |-> <<>>])

New_Lab_coordinates_system_representation ==
    Frame("Lab_coordinates_system_representation", "createNode",
          [group |-> "", cube |-> "", n |-> 1, text |-> "", curves |-> <<>>,
           k |-> 1, surfaces |-> <<>>, mesh |-> "", parents |-> <<>>])

Labels_Swapped ==
    << [label |-> "+a*", position |-> <<350, 0>>, name |-> "plus_a"],
       [label |-> "-a*", position |-> <<-350, 0>>, name |-> "minus_a"],
       [label |-> "-b*", position |-> <<0, 350>>, name |-> "minus_b"],
       [label |-> "+b*", position |-> <<0, -350>>, name |-> "plus_b"] >>

\* The (label, position, name) triples of the loop at 261-264.
Labels ==
    << [label |-> "-a*", position |-> <<-350, 0>>, name |-> "minus_a"],
       [label |-> "+a*", position |-> <<350, 0>>, name |-> "plus_a"],
       [label |-> "-b*", position |-> <<0, 350>>, name |-> "minus_b"],
       [label |-> "+b*", position |-> <<0, -350>>, name |-> "plus_b"] >>

HostCall_RGB_identity_cube(f, r) ==
    CASE f.pc = "polyCube" ->
           Host("cmds", "polyCube",
                <<1, 1, 1, f.v.density, f.v.density, f.v.density>>)
      [] f.pc = "displayColors" ->
           Host("cmds", "setAttr", <<Plug(f.v.cube, "displayColors"), 1>>)
      [] f.pc = "MColorArray" -> Host("OpenMaya", "MColorArray", <<>>)
      [] f.pc = "MIntArray" -> Host("OpenMaya", "MIntArray", <<>>)
      [] f.pc = "MPointArray" -> Host("OpenMaya", "MPointArray", <<>>)
      [] f.pc = "MFnMesh" -> Host("OpenMaya", "MFnMesh", <<r.s>>)
      [] f.pc = "getPoints" ->
           Host("OpenMaya", "MFnMesh.getPoints", <<"kWorld">>)
      [] f.pc = "length" -> Host("OpenMaya", "MPointArray.length", <<>>)
      [] f.pc = "colour_append" ->
           Host("OpenMaya", "MColorArray.append",
                f.v.point_array[f.v.i + 1])
      [] f.pc = "index_append" ->
           Host("OpenMaya", "MIntArray.append", <<f.v.i>>)
      [] f.pc = "setVertexColors" ->
           Host("OpenMaya", "MFnMesh.setVertexColors",
                <<f.v.vertex_colour_array, f.v.vertex_index_array>>)
      [] f.pc = "makeIdentity" -> Host("cmds", "makeIdentity", <<f.v.cube>>)
      [] f.pc = "xform" -> Host("cmds", "xform", <<f.v.cube, "pivots">>)
      [] f.pc = "rename" -> Host("cmds", "rename", <<f.v.cube, f.v.name>>)
      [] OTHER -> NoHost

HostCall_Lab_colourspace_cube(f, r) ==
    CASE f.pc = "MItMeshVertex" -> Host("OpenMaya", "MItMeshVertex", <<r.s>>)
      [] f.pc = "isDone" ->
           Host("OpenMaya", "MItMeshVertex.isDone",
                <<f.v.it_mesh_vertex.index>>)
      [] f.pc = "position" ->
           Host("OpenMaya", "MItMeshVertex.position",
                <<f.v.it_mesh_vertex.index>>)
      [] f.pc = "setPosition" ->
           Host("OpenMaya", "MItMeshVertex.setPosition",
                <<f.v.it_mesh_vertex.index, r.p>>)
      [] f.pc = "next" ->
           Host("OpenMaya", "MItMeshVertex.next",
                <<f.v.it_mesh_vertex.index>>)
      [] f.pc = "makeIdentity" -> Host("cmds", "makeIdentity", <<f.v.cube>>)
      [] OTHER -> NoHost

HostCall_Lab_coordinates_system_representation(f) ==
    CASE f.pc = "createNode" -> Host("cmds", "createNode", <<"transform">>)
      [] f.pc = "polyCube" ->
           Host("cmds", "polyCube", <<600, 100, 600, 12, 2, 12>>)
      [] f.pc = "makeIdentity" -> Host("cmds", "makeIdentity", <<f.v.cube>>)
      [] f.pc = "select_faces" ->
           Host("cmds", "select",
                <<FaceRange(f.v.cube, 0, 167), FaceRange(f.v.cube, 336, 359)>>)
      [] f.pc = "delete_faces" -> Host("cmds", "delete", <<>>)
      [] f.pc = "nurbsToPolygonsPref" ->
           Host("cmds", "nurbsToPolygonsPref", <<1, 975>>)
      [] f.pc = "textCurves" ->
           Host("cmds", "textCurves",
                <<"Arial Black Bold", Labels[f.v.n].label>>)
      [] f.pc = "listRelatives" ->
           Host("cmds", "listRelatives", <<f.v.text>>)
      [] f.pc = "planarSrf" ->
           Host("cmds", "planarSrf", <<f.v.curves[f.v.k]>>)
      [] f.pc = "polyUnite" -> Host("cmds", "polyUnite", f.v.surfaces)
      [] f.pc = "xform_cp" -> Host("cmds", "xform", <<f.v.mesh, "cp">>)
      [] f.pc = "xform_translation" ->
           Host("cmds", "xform", <<f.v.mesh, "translation">>)
      [] f.pc = "makeIdentity_cube" ->
           Host("cmds", "makeIdentity", <<f.v.cube>>)
      [] f.pc = "select_mesh" ->
           Host("cmds", "select", <<WholeNode(f.v.mesh)>>)
      [] f.pc = "polyColorPerVertex" ->
           Host("cmds", "polyColorPerVertex", <<0, 0, 0>>)
      [] f.pc = "listRelatives_parent" ->
           Host("cmds", "listRelatives", <<f.v.curves, "parent">>)
      [] f.pc = "delete_curves" -> Host("cmds", "delete", f.v.parents)
      [] f.pc = "makeIdentity_mesh" ->
           Host("cmds", "makeIdentity", <<f.v.mesh>>)
      [] f.pc = "rename_mesh" ->
           Host("cmds", "rename", <<f.v.mesh, Labels[f.v.n].name>>)
      [] f.pc = "parent_mesh" ->
           Host("cmds", "parent", <<f.v.mesh, f.v.group>>)
      [] f.pc = "rename_cube" -> Host("cmds", "rename", <<f.v.cube, "grid">>)
      [] f.pc = "parent_cube" ->
           Host("cmds", "parent", <<f.v.cube, f.v.group>>)
      [] f.pc = "rename_group" ->
           Host("cmds", "rename",
                <<f.v.group, "Lab_coordinates_system_representation">>)
      [] OTHER -> NoHost

\* The host call the frame's next statement makes (NoHost: none), given the
\* value the last return handed back.
HostCallOf(f, r) ==
    CASE f.fn = "get_dag_path" -> HostCall_get_dag_path(f)
      [] f.fn = "get_mpoint" -> HostCall_get_mpoint(f)
      [] f.fn = "get_shapes" -> HostCall_get_shapes(f)
      [] f.fn = "set_attributes" -> HostCall_set_attributes(f)
      [] f.fn = "RGB_identity_cube" -> HostCall_RGB_identity_cube(f, r)
      [] f.fn = "Lab_colourspace_cube" -> HostCall_Lab_colourspace_cube(f, r)
      [] f.fn = "Lab_coordinates_system_representation" ->
           HostCall_Lab_coordinates_system_representation(f)
      [] OTHER -> NoHost

Pending == HostCallOf(Top, ret)

(* --------------------------- control flow ------------------------------ *)

Running == phase = "running" /\ exc = NoExc /\ stack # <<>>

\* The innermost frame is at statement pc of fn, and the host name the
\* statement uses is bound.
At(fn, pc) ==
    /\ Running
    /\ Top.fn = fn
    /\ Top.pc = pc
    /\ Pending.api \in bound \cup {""}

Goto(pc, v) ==
    stack' = [stack EXCEPT ![Len(stack)] = Frame(Top.fn, pc, v)]

\* The statement calls a function of this module: its frame is pushed, and
\* the caller resumes at pc.
Push(pc, v, callee) ==
    stack' = Append([stack EXCEPT ![Len(stack)] = Frame(Top.fn, pc, v)], callee)

Return(value) ==
    /\ stack' = Front(stack)
    /\ ret' = value
    /\ phase' = IF Len(stack) = 1 THEN "done" ELSE phase

Logged(result) == log' = Append(log, Entry(Pending, TRUE, result))

\* The caller (the script console) calls fn, the module being loaded.
Start(f, u) ==
    /\ phase' = "running"
    /\ call' = f
    /\ stack' = <<f>>
    /\ unit' = u
    /\ UNCHANGED <<bound, importExc, hashSeed, ret, exc, scene, log>>

HostFail_Rollback ==
    /\ phase = "running" /\ exc = NoExc /\ stack # <<>>
    /\ HostCallOf(stack[Len(stack)], ret).api \in bound
    /\ log' = Append(log, Entry(HostCallOf(stack[Len(stack)], ret), FALSE,
                                NoValue))
    /\ exc' = [type |-> "RuntimeError",
               cmd |-> HostCallOf(stack[Len(stack)], ret).cmd]
    /\ scene' = InitialScene
    /\ UNCHANGED <<phase, bound, importExc, hashSeed, unit, call, stack, ret>>

\* A host call raises: nothing of the call takes effect.
HostFail ==
    /\ Running
    /\ Pending.api \in bound
    /\ log' = Append(log, Entry(Pending, FALSE, NoValue))
    /\ exc' = [type |-> "RuntimeError", cmd |-> Pending.cmd]
    /\ UNCHANGED <<phase, bound, importExc, hashSeed, unit, call, stack, ret,
                   scene>>

\* The statement names a host module the import left unbound.
NameError ==
    /\ Running
    /\ Pending.api # ""
    /\ Pending.api \notin bound
    /\ exc' = [type |-> "NameError", cmd |-> Pending.api]
    /\ UNCHANGED <<phase, bound, importExc, hashSeed, unit, call, stack, ret,
                   scene, log>>

Propagate_Handled ==
    /\ phase = "running"
    /\ exc # NoExc
    /\ stack # <<>>
    /\ IF Top.fn = "set_attributes" /\ Top.v.items # <<>>
       THEN /\ exc' = NoExc
            /\ stack' = [stack EXCEPT ![Len(stack)].v.items = Tail(@)]
            /\ UNCHANGED <<phase, ret, scene>>
       ELSE /\ stack' = Front(stack)
            /\ ret' = NoValue
            /\ phase' = IF Len(stack) = 1 THEN "done" ELSE phase
            /\ UNCHANGED <<exc, scene>>
    /\ UNCHANGED <<bound, importExc, hashSeed, unit, call, log>>

\* No function has a handler: the exception leaves the innermost frame as it
\* is, the frame hands back no value, and the exception reaches the caller
\* when no frame is left.
Propagate ==
    /\ phase = "running"
    /\ exc # NoExc
    /\ stack # <<>>
    /\ stack' = Front(stack)
    /\ ret' = NoValue
    /\ phase' = IF Len(stack) = 1 THEN "done" ELSE phase
    /\ UNCHANGED <<bound, importExc, hashSeed, unit, call, exc, scene, log>>

(* ------------------------ get_dag_path (41-60) ------------------------- *)

DagPath(sc, node) == Val("MDagPath", PathOf(sc.nodes, node), <<node>>, <<>>)

Call_get_dag_path ==
    /\ phase = "loaded"
    /\ \E node \in DOMAIN scene.nodes \cup {"missing"} :
          Start(New_get_dag_path(node), 1)

GDP_MSelectionList ==
    /\ At("get_dag_path", "MSelectionList")
    /\ Goto("add", [Top.v EXCEPT !.selection_list = <<>>])
    /\ Logged(PyList(<<>>))
    /\ UNCHANGED <<phase, bound, importExc, hashSeed, unit, call, ret, exc,
                   scene>>

GDP_add ==
    /\ At("get_dag_path", "add")
    /\ Exists(scene, Top.v.node)
    /\ Goto("MDagPath",
            [Top.v EXCEPT !.selection_list = Append(@, Top.v.node)])
    /\ Logged(PyNone)
    /\ UNCHANGED <<phase, bound, importExc, hashSeed, unit, call, ret, exc,
                   scene>>

GDP_MDagPath ==
    /\ At("get_dag_path", "MDagPath")
    /\ Goto("getDagPath", [Top.v EXCEPT !.dag_path = MDagPath("")])
    /\ Logged(MDagPath(""))
    /\ UNCHANGED <<phase, bound, importExc, hashSeed, unit, call, ret, exc,
                   scene>>

\* selection_list.getDagPath(0, dag_path); return dag_path
GDP_getDagPath ==
    /\ At("get_dag_path", "getDagPath")
    /\ LET dag_path == DagPath(scene, Top.v.selection_list[1])
       IN /\ Logged(dag_path)
          /\ Return(dag_path)
    /\ UNCHANGED <<bound, importExc, hashSeed, unit, call, exc, scene>>

(* ------------------------- get_mpoint (63-78) -------------------------- *)

Points == {<<0, 0, 0>>, <<1, 2, 3>>, <<3, 1, 2, 7>>}

Call_get_mpoint ==
    /\ phase = "loaded"
    /\ \E point \in Points : Start(New_get_mpoint(point), 1)

GMP_MPoint ==
    /\ At("get_mpoint", "MPoint")
    /\ LET point == Top.v.point
           m == MPoint(point[1], point[2], point[3])
       IN /\ Logged(m)
          /\ Return(m)
    /\ UNCHANGED <<bound, importExc, hashSeed, unit, call, exc, scene>>

(* ------------------------- get_shapes (81-108) ------------------------- *)

Call_get_shapes ==
    /\ phase = "loaded"
    /\ \E object \in DOMAIN scene.nodes, full_path \in BOOLEAN,
          no_intermediate \in BOOLEAN :
          Start(New_get_shapes(object, full_path, no_intermediate), 1)

GS_PassThrough(shapes) == shapes

\* object_shapes = []; if shapes is not None: object_shapes = shapes
GS_Result(shapes) == IF shapes # PyNone THEN shapes ELSE PyList(<<>>)

GS_listRelatives ==
    /\ At("get_shapes", "listRelatives")
    /\ Exists(scene, Top.v.object)
    /\ LET shapes == listRelatives_shapes(scene, Top.v.object, Top.v.full_path,
                                          Top.v.no_intermediate)
       IN /\ Logged(shapes)
          /\ Return(GS_Result(shapes))
    /\ UNCHANGED <<bound, importExc, hashSeed, unit, call, exc, scene>>

(* ----------------------- set_attributes (111-128) ---------------------- *)

\* The mappings the caller hands over.
AttributeMappings ==
    { <<>>,
      << <<Plug("obj", "translateX"), 1>> >>,
      << <<Plug("obj", "translateX"), 1>>, <<Plug("null1", "visibility"), 0>>,
         <<Plug("obj", "scaleY"), 2>> >>,
      << <<Plug("obj", "rotateZ"), 90>>, <<Plug("missing", "translateX"), 4>>,
         <<Plug("null1", "translateY"), 3>> >> }

Call_set_attributes ==
    /\ phase = "loaded"
    /\ \E attributes \in AttributeMappings :
          Start(New_set_attributes(attributes, hashSeed), 1)

\* for attribute, value in attributes.items(): cmds.setAttr(attribute, value)
SA_setAttr ==
    /\ At("set_attributes", "for")
    /\ Top.v.items # <<>>
    /\ LET item == Head(Top.v.items)
       IN /\ setAttr_ok(scene, item[1])
          /\ scene' = setAttr(scene, item[1], item[2])
    /\ Goto("for", [Top.v EXCEPT !.items = Tail(@)])
    /\ Logged(PyNone)
    /\ UNCHANGED <<phase, bound, importExc, hashSeed, unit, call, ret, exc>>

\* return True
SA_return ==
    /\ At("set_attributes", "for")
    /\ Top.v.items = <<>>
    /\ Return(PyTrue)
    /\ UNCHANGED <<bound, importExc, hashSeed, unit, call, exc, scene, log>>

(* ------------------------- RGB_to_Lab (131-156) ------------------------ *)

RGBs == {<<0, 0, 0>>, <<1, 0, 0>>, <<1, 2, 1>>, <<2, 2, 2>>}

Call_RGB_to_Lab ==
    /\ phase = "loaded"
    /\ \E RGB \in RGBs, colourspace \in Colourspaces :
          Start(New_RGB_to_Lab(RGB, colourspace), 2)

RTL_return ==
    /\ At("RGB_to_Lab", "return")
    /\ Return(RGB_to_Lab(Top.v.RGB, Top.v.colourspace))
    /\ UNCHANGED <<bound, importExc, hashSeed, unit, call, exc, scene, log>>

(* --------------------- RGB_identity_cube (159-202) --------------------- *)

CubeNames == {"cube", "obj"}

Call_RGB_identity_cube ==
    /\ phase = "loaded"
    /\ \E name \in CubeNames, density \in 1..MaxDensity :
          Start(New_RGB_identity_cube(name, density), 2 * density)

PyBool(b) == Val("bool", IF b THEN "True" ELSE "False", <<>>, <<>>)

RIC_polyCube ==
    /\ At("RGB_identity_cube", "polyCube")
    /\ Goto("set_attributes", [Top.v EXCEPT !.cube = polyCube_name(scene)])
    /\ Logged(PyList(<<polyCube_name(scene)>>))
    /\ scene' = polyCube(scene, unit, 1, 1, 1, Top.v.density, Top.v.density,
                       Top.v.density)
    /\ UNCHANGED <<phase, bound, importExc, hashSeed, unit, call, ret, exc>>

\* set_attributes({cube.translateX: .5, cube.translateY: .5,
\*                 cube.translateZ: .5})
RIC_set_attributes ==
    /\ At("RGB_identity_cube", "set_attributes")
    /\ Push("displayColors", Top.v,
            New_set_attributes(
                DictLiteral(<< <<Plug(Top.v.cube, "translateX"), unit \div 2>>,
                               <<Plug(Top.v.cube, "translateY"), unit \div 2>>,
                               <<Plug(Top.v.cube, "translateZ"), unit \div 2>> >>),
                hashSeed))
    /\ UNCHANGED <<phase, bound, importExc, hashSeed, unit, call, ret, exc,
                   scene, log>>

RIC_displayColors ==
    /\ At("RGB_identity_cube", "displayColors")
    /\ Goto("MColorArray", Top.v)
    /\ Logged(PyNone)
    /\ scene' = setAttr(scene, Plug(Top.v.cube, "displayColors"), 1)
    /\ UNCHANGED <<phase, bound, importExc, hashSeed, unit, call, ret, exc>>

RIC_MColorArray ==
    /\ At("RGB_identity_cube", "MColorArray")
    /\ Goto("MIntArray", [Top.v EXCEPT !.vertex_colour_array = <<>>])
    /\ Logged(PyList(<<>>))
    /\ UNCHANGED <<phase, bound, importExc, hashSeed, unit, call, ret, exc,
                   scene>>

RIC_MIntArray ==
    /\ At("RGB_identity_cube", "MIntArray")
    /\ Goto("MPointArray", [Top.v EXCEPT !.vertex_index_array = <<>>])
    /\ Logged(PyList(<<>>))
    /\ UNCHANGED <<phase, bound, importExc, hashSeed, unit, call, ret, exc,
                   scene>>

RIC_MPointArray ==
    /\ At("RGB_identity_cube", "MPointArray")
    /\ Goto("get_shapes", [Top.v EXCEPT !.point_array = <<>>])
    /\ Logged(PyList(<<>>))
    /\ UNCHANGED <<phase, bound, importExc, hashSeed, unit, call, ret, exc,
                   scene>>

\* fn_mesh = OpenMaya.MFnMesh(get_dag_path(get_shapes(cube)[0])): the inner
\* call first.
RIC_get_shapes ==
    /\ At("RGB_identity_cube", "get_shapes")
    /\ Push("get_dag_path", Top.v, New_get_shapes(Top.v.cube, FALSE, TRUE))
    /\ UNCHANGED <<phase, bound, importExc, hashSeed, unit, call, ret, exc,
                   scene, log>>

\* get_dag_path(<the shapes>[0])
RIC_get_dag_path ==
    /\ At("RGB_identity_cube", "get_dag_path")
    /\ ret.l # <<>>
    /\ Push("MFnMesh", Top.v, New_get_dag_path(ret.l[1]))
    /\ UNCHANGED <<phase, bound, importExc, hashSeed, unit, call, ret, exc,
                   scene, log>>

RIC_MFnMesh ==
    /\ At("RGB_identity_cube", "MFnMesh")
    /\ Goto("getPoints", [Top.v EXCEPT !.fn_mesh = ret.l[1]])
    /\ Logged(PyStr(ret.l[1]))
    /\ UNCHANGED <<phase, bound, importExc, hashSeed, unit, call, ret, exc,
                   scene>>

RIC_getPoints_kObject ==
    /\ At("RGB_identity_cube", "getPoints")
    /\ Goto("length",
            [Top.v EXCEPT !.point_array = scene.nodes[Top.v.fn_mesh].points])
    /\ Logged(PyNone)
    /\ UNCHANGED <<phase, bound, importExc, hashSeed, unit, call, ret, exc,
                   scene>>

\* fn_mesh.getPoints(point_array, OpenMaya.MSpace.kWorld)
RIC_getPoints ==
    /\ At("RGB_identity_cube", "getPoints")
    /\ Goto("length", [Top.v EXCEPT !.point_array = WorldPoints(scene, Top.v.fn_mesh)])
    /\ Logged(PyNone)
    /\ UNCHANGED <<phase, bound, importExc, hashSeed, unit, call, ret, exc,
                   scene>>

\* for i in range(point_array.length()):
RIC_length ==
    /\ At("RGB_identity_cube", "length")
    /\ Goto(IF Len(Top.v.point_array) > 0 THEN "colour_append"
            ELSE "setVertexColors", [Top.v EXCEPT !.n = Len(Top.v.point_array), !.i = 0])
    /\ Logged(PyNone)
    /\ UNCHANGED <<phase, bound, importExc, hashSeed, unit, call, ret, exc,
                   scene>>

\* vertex_colour_array.append(point_array[i][0], point_array[i][1],
\*                            point_array[i][2])
RIC_colour_append ==
    /\ At("RGB_identity_cube", "colour_append")
    /\ Goto("index_append", [Top.v EXCEPT !.vertex_colour_array =
                             Append(@, Top.v.point_array[Top.v.i + 1])])
    /\ Logged(PyNone)
    /\ UNCHANGED <<phase, bound, importExc, hashSeed, unit, call, ret, exc,
                   scene>>

\* vertex_index_array.append(i), and the loop's next round
RIC_index_append ==
    /\ At("RGB_identity_cube", "index_append")
    /\ Goto(IF Top.v.i + 1 < Top.v.n THEN "colour_append"
            ELSE "setVertexColors", [Top.v EXCEPT !.vertex_index_array = Append(@, Top.v.i),
                         !.i = @ + 1])
    /\ Logged(PyNone)
    /\ UNCHANGED <<phase, bound, importExc, hashSeed, unit, call, ret, exc,
                   scene>>

RIC_setVertexColors ==
    /\ At("RGB_identity_cube", "setVertexColors")
    /\ Goto("makeIdentity", Top.v)
    /\ Logged(PyNone)
    /\ scene' = setVertexColors(scene, Top.v.fn_mesh, Top.v.vertex_colour_array,
                              Top.v.vertex_index_array)
    /\ UNCHANGED <<phase, bound, importExc, hashSeed, unit, call, ret, exc>>

RIC_makeIdentity ==
    /\ At("RGB_identity_cube", "makeIdentity")
    /\ Goto("xform", Top.v)
    /\ Logged(PyNone)
    /\ scene' = makeIdentity(scene, Top.v.cube)
    /\ UNCHANGED <<phase, bound, importExc, hashSeed, unit, call, ret, exc>>

RIC_xform ==
    /\ At("RGB_identity_cube", "xform")
    /\ Goto("rename", Top.v)
    /\ Logged(PyNone)
    /\ scene' = xform_pivots(scene, Top.v.cube)
    /\ UNCHANGED <<phase, bound, importExc, hashSeed, unit, call, ret, exc>>

\* return cmds.rename(cube, name)
RIC_rename ==
    /\ At("RGB_identity_cube", "rename")
    /\ Logged(PyStr(rename_name(scene, Top.v.name)))
    /\ scene' = rename(scene, Top.v.cube, Top.v.name)
    /\ Return(PyStr(rename_name(scene, Top.v.name)))
    /\ UNCHANGED <<bound, importExc, hashSeed, unit, call, exc>>

(* -------------------- Lab_colourspace_cube (205-235) ------------------- *)

Call_Lab_colourspace_cube ==
    /\ phase = "loaded"
    /\ \E colourspace \in Colourspaces, density \in 1..MaxDensity :
          Start(New_Lab_colourspace_cube(colourspace, density), 2 * density)

\* cube = RGB_identity_cube(colourspace.name, density)
LCC_RGB_identity_cube ==
    /\ At("Lab_colourspace_cube", "RGB_identity_cube")
    /\ Push("get_dag_path", Top.v,
            New_RGB_identity_cube(Top.v.colourspace.name, Top.v.density))
    /\ UNCHANGED <<phase, bound, importExc, hashSeed, unit, call, ret, exc,
                   scene, log>>

\* it_mesh_vertex = OpenMaya.MItMeshVertex(get_dag_path(cube)): the inner call
\* first.
LCC_get_dag_path ==
    /\ At("Lab_colourspace_cube", "get_dag_path")
    /\ Push("MItMeshVertex", [Top.v EXCEPT !.cube = ret.s],
            New_get_dag_path(ret.s))
    /\ UNCHANGED <<phase, bound, importExc, hashSeed, unit, call, ret, exc,
                   scene, log>>

LCC_MItMeshVertex ==
    /\ At("Lab_colourspace_cube", "MItMeshVertex")
    /\ Goto("isDone", [Top.v EXCEPT !.it_mesh_vertex =
                             [mesh |-> MeshOf(scene, ret.l[1]), index |-> 0]])
    /\ Logged(PyStr(ret.l[1]))
    /\ UNCHANGED <<phase, bound, importExc, hashSeed, unit, call, ret, exc,
                   scene>>

\* while not it_mesh_vertex.isDone():
LCC_isDone ==
    /\ At("Lab_colourspace_cube", "isDone")
    /\ Goto(IF isDone(scene, Top.v.it_mesh_vertex) THEN "set_attributes"
            ELSE "position", Top.v)
    /\ Logged(PyBool(isDone(scene, Top.v.it_mesh_vertex)))
    /\ UNCHANGED <<phase, bound, importExc, hashSeed, unit, call, ret, exc,
                   scene>>

\* position = it_mesh_vertex.position(OpenMaya.MSpace.kObject)
LCC_position ==
    /\ At("Lab_colourspace_cube", "position")
    /\ Goto("get_mpoint",
            [Top.v EXCEPT !.position = position(scene, Top.v.it_mesh_vertex)])
    /\ Logged(Val("MPoint", "", <<>>, position(scene, Top.v.it_mesh_vertex)))
    /\ UNCHANGED <<phase, bound, importExc, hashSeed, unit, call, ret, exc,
                   scene>>

\* get_mpoint(tuple(np.ravel(RGB_to_Lab((position[0], position[1],
\*                                         position[2]), colourspace))))
LCC_get_mpoint ==
    /\ At("Lab_colourspace_cube", "get_mpoint")
    /\ Push("setPosition", Top.v,
            New_get_mpoint(py_tuple(np_ravel(
                RGB_to_Lab(<<Top.v.position[1], Top.v.position[2],
                             Top.v.position[3]>>,
                           Top.v.colourspace)))))
    /\ UNCHANGED <<phase, bound, importExc, hashSeed, unit, call, ret, exc,
                   scene, log>>

\* it_mesh_vertex.setPosition(<the MPoint>)
LCC_setPosition ==
    /\ At("Lab_colourspace_cube", "setPosition")
    /\ Goto("next", Top.v)
    /\ Logged(PyNone)
    /\ scene' = setPosition(scene, Top.v.it_mesh_vertex, ret.p)
    /\ UNCHANGED <<phase, bound, importExc, hashSeed, unit, call, ret, exc>>

LCC_next_Skip ==
    /\ At("Lab_colourspace_cube", "next")
    /\ Goto("isDone", [Top.v EXCEPT !.it_mesh_vertex.index = @ + 2])
    /\ Logged(PyNone)
    /\ UNCHANGED <<phase, bound, importExc, hashSeed, unit, call, ret, exc,
                   scene>>

\* it_mesh_vertex.next()
LCC_next ==
    /\ At("Lab_colourspace_cube", "next")
    /\ Goto("isDone", [Top.v EXCEPT !.it_mesh_vertex.index = @ + 1])
    /\ Logged(PyNone)
    /\ UNCHANGED <<phase, bound, importExc, hashSeed, unit, call, ret, exc,
                   scene>>

\* set_attributes({cube.rotateX: 180, cube.rotateZ: 90})
LCC_set_attributes ==
    /\ At("Lab_colourspace_cube", "set_attributes")
    /\ Push("makeIdentity", Top.v,
            New_set_attributes(
                DictLiteral(<< <<Plug(Top.v.cube, "rotateX"), 180>>,
                               <<Plug(Top.v.cube, "rotateZ"), 90>> >>),
                hashSeed))
    /\ UNCHANGED <<phase, bound, importExc, hashSeed, unit, call, ret, exc,
                   scene, log>>

\* cmds.makeIdentity(cube, apply=True, t=True, r=True, s=True); return cube
LCC_makeIdentity ==
    /\ At("Lab_colourspace_cube", "makeIdentity")
    /\ Logged(PyNone)
    /\ scene' = makeIdentity(scene, Top.v.cube)
    /\ Return(PyStr(Top.v.cube))
    /\ UNCHANGED <<bound, importExc, hashSeed, unit, call, exc>>

(* ------------ Lab_coordinates_system_representation (238-295) ---------- *)

Call_Lab_coordinates_system_representation ==
    /\ phase = "loaded"
    /\ Start(New_Lab_coordinates_system_representation, 1)

LCS_createNode ==
    /\ At("Lab_coordinates_system_representation", "createNode")
    /\ Goto("polyCube", [Top.v EXCEPT !.group = createNode_name(scene)])
    /\ Logged(PyStr(createNode_name(scene)))
    /\ scene' = createNode(scene)
    /\ UNCHANGED <<phase, bound, importExc, hashSeed, unit, call, ret, exc>>

LCS_polyCube ==
    /\ At("Lab_coordinates_system_representation", "polyCube")
    /\ Goto("set_attributes_cube", [Top.v EXCEPT !.cube = polyCube_name(scene)])
    /\ Logged(PyList(<<polyCube_name(scene)>>))
    /\ scene' = polyCube(scene, unit, 600, 100, 600, 12, 2, 12)
    /\ UNCHANGED <<phase, bound, importExc, hashSeed, unit, call, ret, exc>>

\* The mapping of 251-254.
CubeAttributes(cube, u) ==
    DictLiteral(<< <<Plug(cube, "translateY"), 50 * u>>,
                   <<Plug(cube, "overrideEnabled"), 1>>,
                   <<Plug(cube, "overrideDisplayType"), 2>>,
                   <<Plug(cube, "overrideShading"), 0>> >>)

LCS_set_attributes_cube ==
    /\ At("Lab_coordinates_system_representation", "set_attributes_cube")
    /\ Push("makeIdentity", Top.v,
            New_set_attributes(CubeAttributes(Top.v.cube, unit), hashSeed))
    /\ UNCHANGED <<phase, bound, importExc, hashSeed, unit, call, ret, exc,
                   scene, log>>

LCS_makeIdentity ==
    /\ At("Lab_coordinates_system_representation", "makeIdentity")
    /\ Goto("select_faces", Top.v)
    /\ Logged(PyNone)
    /\ scene' = makeIdentity(scene, Top.v.cube)
    /\ UNCHANGED <<phase, bound, importExc, hashSeed, unit, call, ret, exc>>

LCS_select_faces ==
    /\ At("Lab_coordinates_system_representation", "select_faces")
    /\ Goto("delete_faces", Top.v)
    /\ Logged(PyNone)
    /\ scene' = select(scene, Pending.args)
    /\ UNCHANGED <<phase, bound, importExc, hashSeed, unit, call, ret, exc>>

LCS_delete_faces ==
    /\ At("Lab_coordinates_system_representation", "delete_faces")
    /\ Goto("nurbsToPolygonsPref", Top.v)
    /\ Logged(PyNone)
    /\ scene' = delete_selection(scene)
    /\ UNCHANGED <<phase, bound, importExc, hashSeed, unit, call, ret, exc>>

LCS_nurbsToPolygonsPref ==
    /\ At("Lab_coordinates_system_representation", "nurbsToPolygonsPref")
    /\ Goto("textCurves", Top.v)
    /\ Logged(PyNone)
    /\ scene' = nurbsToPolygonsPref(scene)
    /\ UNCHANGED <<phase, bound, importExc, hashSeed, unit, call, ret, exc>>

\* cmds.textCurves(f='Arial Black Bold', t=label)[0]
LCS_textCurves ==
    /\ At("Lab_coordinates_system_representation", "textCurves")
    /\ Goto("listRelatives", [Top.v EXCEPT !.text = textCurves_name(scene)])
    /\ Logged(PyList(<<textCurves_name(scene), "makeTextCurves1">>))
    /\ scene' = textCurves(scene, Labels[Top.v.n].label)
    /\ UNCHANGED <<phase, bound, importExc, hashSeed, unit, call, ret, exc>>

\* curves = cmds.listRelatives(<the text>)
LCS_listRelatives ==
    /\ At("Lab_coordinates_system_representation", "listRelatives")
    /\ listRelatives_children(scene, Top.v.text) # PyNone
    /\ Goto("planarSrf", [Top.v EXCEPT !.curves = listRelatives_children(scene, Top.v.text).l,
                         !.k = 1, !.surfaces = <<>>])
    /\ Logged(listRelatives_children(scene, Top.v.text))
    /\ UNCHANGED <<phase, bound, importExc, hashSeed, unit, call, ret, exc,
                   scene>>

\* cmds.planarSrf(x, ch=False, o=True, po=1) for x in curves
LCS_planarSrf ==
    /\ At("Lab_coordinates_system_representation", "planarSrf")
    /\ Goto(IF Top.v.k < Len(Top.v.curves) THEN "planarSrf" ELSE "polyUnite", [Top.v EXCEPT !.surfaces = Append(@, planarSrf_name(scene)),
                         !.k = @ + 1])
    /\ Logged(PyList(<<planarSrf_name(scene)>>))
    /\ scene' = planarSrf(scene, Top.v.curves[Top.v.k])
    /\ UNCHANGED <<phase, bound, importExc, hashSeed, unit, call, ret, exc>>

LCS_polyUnite ==
    /\ At("Lab_coordinates_system_representation", "polyUnite")
    /\ Goto("xform_cp", [Top.v EXCEPT !.mesh = polyUnite_name(scene, Top.v.surfaces)])
    /\ Logged(PyList(<<polyUnite_name(scene, Top.v.surfaces)>>))
    /\ scene' = polyUnite(scene, Top.v.surfaces)
    /\ UNCHANGED <<phase, bound, importExc, hashSeed, unit, call, ret, exc>>

LCS_xform_cp ==
    /\ At("Lab_coordinates_system_representation", "xform_cp")
    /\ Goto("xform_translation", Top.v)
    /\ Logged(PyNone)
    /\ scene' = xform_cp(scene, Top.v.mesh)
    /\ UNCHANGED <<phase, bound, importExc, hashSeed, unit, call, ret, exc>>

LCS_xform_translation ==
    /\ At("Lab_coordinates_system_representation", "xform_translation")
    /\ Goto("makeIdentity_cube", Top.v)
    /\ Logged(PyNone)
    /\ scene' = xform_translation(scene, Top.v.mesh)
    /\ UNCHANGED <<phase, bound, importExc, hashSeed, unit, call, ret, exc>>

\* cmds.makeIdentity(cube, ...) at 275: the cube, not the mesh
LCS_makeIdentity_cube ==
    /\ At("Lab_coordinates_system_representation", "makeIdentity_cube")
    /\ Goto("select_mesh", Top.v)
    /\ Logged(PyNone)
    /\ scene' = makeIdentity(scene, Top.v.cube)
    /\ UNCHANGED <<phase, bound, importExc, hashSeed, unit, call, ret, exc>>

LCS_select_mesh ==
    /\ At("Lab_coordinates_system_representation", "select_mesh")
    /\ Goto("polyColorPerVertex", Top.v)
    /\ Logged(PyNone)
    /\ scene' = select(scene, Pending.args)
    /\ UNCHANGED <<phase, bound, importExc, hashSeed, unit, call, ret, exc>>

LCS_polyColorPerVertex ==
    /\ At("Lab_coordinates_system_representation", "polyColorPerVertex")
    /\ Goto("set_attributes_mesh", Top.v)
    /\ Logged(PyNone)
    /\ scene' = polyColorPerVertex(scene, <<0, 0, 0>>)
    /\ UNCHANGED <<phase, bound, importExc, hashSeed, unit, call, ret, exc>>

MeshAttributes_scaleZ(mesh, pos, u) ==
    DictLiteral(<< <<Plug(mesh, "translateX"), pos[1] * u>>,
                   <<Plug(mesh, "translateZ"), pos[2] * u>>,
                   <<Plug(mesh, "rotateX"), -90>>,
                   <<Plug(mesh, "scaleX"), 50>>,
                   <<Plug(mesh, "scaleY"), 50>>,
                   <<Plug(mesh, "scaleZ"), 50>>,
                   <<Plug(mesh, "overrideEnabled"), 1>>,
                   <<Plug(mesh, "overrideDisplayType"), 2>> >>)

\* The mapping of 278-285: scaleY is written twice.
MeshAttributes(mesh, pos, u) ==
    DictLiteral(<< <<Plug(mesh, "translateX"), pos[1] * u>>,
                   <<Plug(mesh, "translateZ"), pos[2] * u>>,
                   <<Plug(mesh, "rotateX"), -90>>,
                   <<Plug(mesh, "scaleX"), 50>>,
                   <<Plug(mesh, "scaleY"), 50>>,
                   <<Plug(mesh, "scaleY"), 50>>,
                   <<Plug(mesh, "overrideEnabled"), 1>>,
                   <<Plug(mesh, "overrideDisplayType"), 2>> >>)

LCS_set_attributes_mesh ==
    /\ At("Lab_coordinates_system_representation", "set_attributes_mesh")
    /\ Push("listRelatives_parent", Top.v,
            New_set_attributes(
                MeshAttributes(Top.v.mesh, Labels[Top.v.n].position, unit),
                hashSeed))
    /\ UNCHANGED <<phase, bound, importExc, hashSeed, unit, call, ret, exc,
                   scene, log>>

\* cmds.listRelatives(curves, parent=True)
LCS_listRelatives_parent ==
    /\ At("Lab_coordinates_system_representation", "listRelatives_parent")
    /\ \A c \in Range(Top.v.curves) : Exists(scene, c)
    /\ Goto("delete_curves", [Top.v EXCEPT !.parents = listRelatives_parent(scene, Top.v.curves).l])
    /\ Logged(listRelatives_parent(scene, Top.v.curves))
    /\ UNCHANGED <<phase, bound, importExc, hashSeed, unit, call, ret, exc,
                   scene>>

\* cmds.delete(<the parents>)
LCS_delete_curves ==
    /\ At("Lab_coordinates_system_representation", "delete_curves")
    /\ Goto("makeIdentity_mesh", Top.v)
    /\ Logged(PyNone)
    /\ scene' = delete(scene, Top.v.parents)
    /\ UNCHANGED <<phase, bound, importExc, hashSeed, unit, call, ret, exc>>

LCS_makeIdentity_mesh ==
    /\ At("Lab_coordinates_system_representation", "makeIdentity_mesh")
    /\ Goto("rename_mesh", Top.v)
    /\ Logged(PyNone)
    /\ scene' = makeIdentity(scene, Top.v.mesh)
    /\ UNCHANGED <<phase, bound, importExc, hashSeed, unit, call, ret, exc>>

\* mesh = cmds.rename(mesh, name)
LCS_rename_mesh ==
    /\ At("Lab_coordinates_system_representation", "rename_mesh")
    /\ Goto("parent_mesh", [Top.v EXCEPT !.mesh = rename_name(scene, Labels[Top.v.n].name)])
    /\ Logged(PyStr(rename_name(scene, Labels[Top.v.n].name)))
    /\ scene' = rename(scene, Top.v.mesh, Labels[Top.v.n].name)
    /\ UNCHANGED <<phase, bound, importExc, hashSeed, unit, call, ret, exc>>

\* cmds.parent(mesh, group), and the loop's next round
LCS_parent_mesh ==
    /\ At("Lab_coordinates_system_representation", "parent_mesh")
    /\ Goto(IF Top.v.n < Len(Labels) THEN "textCurves" ELSE "rename_cube", [Top.v EXCEPT !.n = @ + 1])
    /\ Logged(PyList(<<Top.v.mesh>>))
    /\ scene' = parent(scene, Top.v.mesh, Top.v.group)
    /\ UNCHANGED <<phase, bound, importExc, hashSeed, unit, call, ret, exc>>

LCS_rename_cube ==
    /\ At("Lab_coordinates_system_representation", "rename_cube")
    /\ Goto("parent_cube", [Top.v EXCEPT !.cube = rename_name(scene, "grid")])
    /\ Logged(PyStr(rename_name(scene, "grid")))
    /\ scene' = rename(scene, Top.v.cube, "grid")
    /\ UNCHANGED <<phase, bound, importExc, hashSeed, unit, call, ret, exc>>

LCS_parent_cube ==
    /\ At("Lab_coordinates_system_representation", "parent_cube")
    /\ Goto("rename_group", Top.v)
    /\ Logged(PyList(<<Top.v.cube>>))
    /\ scene' = parent(scene, Top.v.cube, Top.v.group)
    /\ UNCHANGED <<phase, bound, importExc, hashSeed, unit, call, ret, exc>>

\* cmds.rename(group, 'Lab_coordinates_system_representation'); return True
LCS_rename_group ==
    /\ At("Lab_coordinates_system_representation", "rename_group")
    /\ Logged(PyStr(rename_name(scene, "Lab_coordinates_system_representation")))
    /\ scene' = rename(scene, Top.v.group,
                       "Lab_coordinates_system_representation")
    /\ Return(PyTrue)
    /\ UNCHANGED <<bound, importExc, hashSeed, unit, call, exc>>

(* ------------------------------ the system ----------------------------- *)

Next ==
    \/ ModuleLoad
    \/ HostFail
    \/ NameError
    \/ Propagate
    \/ Call_get_dag_path
    \/ GDP_MSelectionList
    \/ GDP_add
    \/ GDP_MDagPath
    \/ GDP_getDagPath
    \/ Call_get_mpoint
    \/ GMP_MPoint
    \/ Call_get_shapes
    \/ GS_listRelatives
    \/ Call_set_attributes
    \/ SA_setAttr
    \/ SA_return
    \/ Call_RGB_to_Lab
    \/ RTL_return
    \/ Call_RGB_identity_cube
    \/ RIC_polyCube
    \/ RIC_set_attributes
    \/ RIC_displayColors
    \/ RIC_MColorArray
    \/ RIC_MIntArray
    \/ RIC_MPointArray
    \/ RIC_get_shapes
    \/ RIC_get_dag_path
    \/ RIC_MFnMesh
    \/ RIC_getPoints
    \/ RIC_length
    \/ RIC_colour_append
    \/ RIC_index_append
    \/ RIC_setVertexColors
    \/ RIC_makeIdentity
    \/ RIC_xform
    \/ RIC_rename
    \/ Call_Lab_colourspace_cube
    \/ LCC_RGB_identity_cube
    \/ LCC_get_dag_path
    \/ LCC_MItMeshVertex
    \/ LCC_isDone
    \/ LCC_position
    \/ LCC_get_mpoint
    \/ LCC_setPosition
    \/ LCC_next
    \/ LCC_set_attributes
    \/ LCC_makeIdentity
    \/ Call_Lab_coordinates_system_representation
    \/ LCS_createNode
    \/ LCS_polyCube
    \/ LCS_set_attributes_cube
    \/ LCS_makeIdentity
    \/ LCS_select_faces
    \/ LCS_delete_faces
    \/ LCS_nurbsToPolygonsPref
    \/ LCS_textCurves
    \/ LCS_listRelatives
    \/ LCS_planarSrf
    \/ LCS_polyUnite
    \/ LCS_xform_cp
    \/ LCS_xform_translation
    \/ LCS_makeIdentity_cube
    \/ LCS_select_mesh
    \/ LCS_polyColorPerVertex
    \/ LCS_set_attributes_mesh
    \/ LCS_listRelatives_parent
    \/ LCS_delete_curves
    \/ LCS_makeIdentity_mesh
    \/ LCS_rename_mesh
    \/ LCS_parent_mesh
    \/ LCS_rename_cube
    \/ LCS_parent_cube
    \/ LCS_rename_group

Spec == Init /\ [][Next]_vars

(* ------------------------------ properties ----------------------------- *)

Done(fn) == phase = "done" /\ call.fn = fn
Returned(fn) == Done(fn) /\ exc = NoExc

\* The indices of the log's entries for a command.
CallsOf(cmd) == {i \in DOMAIN log : log[i].cmd = cmd}
Failed == {i \in DOMAIN log : ~log[i].ok}

\* The library's composition the way the documentation writes it, for the
\* caller's arguments.
Composition(RGB, colourspace) ==
    LET E == ILLUMINANTS["CIE 1931 2 Degree Standard Observer"]["E"]
        XYZ == RGB_to_XYZ(np_array(RGB), colourspace.whitepoint, E,
                          colourspace.to_XYZ, "Bradford",
                          colourspace.inverse_transfer_function)
    IN XYZ_to_Lab(XYZ, colourspace.whitepoint)

C2_OneSetAttrPerEntry ==
    Returned("set_attributes") =>
        /\ ret = PyTrue
        /\ Len(log) = Len(call.v.attributes)
        /\ \A i \in DOMAIN log : log[i].cmd = "setAttr" /\ log[i].ok
        /\ \A j \in DOMAIN call.v.attributes :
               Cardinality({i \in DOMAIN log :
                               log[i].args = call.v.attributes[j]}) = 1

C2_Witness ==
    /\ Returned("set_attributes")
    /\ Len(call.v.attributes) = 3
    /\ Len(log) = 3

\* C3: set_attributes neither aggregates errors nor rolls back.  A failed
\* setAttr is the last host call of the invocation: no entry after it is
\* tried, the calls before it succeeded in the mapping's iteration order and
\* their attributes hold the values set, the exception reaches the caller and
\* True is not returned.
C3_NoAggregationNoRollback ==
    call.fn = "set_attributes" =>
        /\ Failed # {} => exc.type = "RuntimeError"
        /\ exc.type = "RuntimeError" =>
              /\ Failed = {Len(log)}
              /\ exc.cmd = "setAttr"
              /\ \A i \in DOMAIN log :
                     log[i].args = Items(call.v.attributes, hashSeed)[i]
              /\ \A i \in 1..(Len(log) - 1) :
                     /\ log[i].args[1] \in DOMAIN scene.attrs
                     /\ scene.attrs[log[i].args[1]] = log[i].args[2]
              /\ Last(log).args[1] \notin DOMAIN scene.attrs
              /\ ret # PyTrue
        /\ (phase = "done" /\ exc # NoExc) => ret = NoValue

C3_Witness ==
    /\ Done("set_attributes")
    /\ exc.type = "RuntimeError"
    /\ Len(log) = 3
    /\ Len(call.v.attributes) = 3

Procedures ==
    {"RGB_identity_cube", "Lab_colourspace_cube",
     "Lab_coordinates_system_representation"}

\* C4 (state part): in the three procedures a failed host call is the last
\* host call issued (not retried, nothing after it), every call before it
\* succeeded, the exception in flight is the host's, and the procedure hands
\* back no value.
C4_FailureIsLast ==
    call.fn \in Procedures =>
        /\ Failed # {} => exc.type = "RuntimeError"
        /\ exc.type = "RuntimeError" =>
              /\ Failed = {Len(log)}
              /\ exc.cmd = Last(log).cmd
        /\ (phase = "done" /\ exc # NoExc) => ret = NoValue /\ stack = <<>>

\* C4: a failure of a host call aborts the whole procedure: the state part
\* above; the failing call and every step after it leave the scene as the
\* successful calls left it; and from the failure on no further host command
\* is issued, the exception is not changed and frames are only left.
C4_FailureAborts ==
    /\ []C4_FailureIsLast
    /\ [][(call.fn \in Procedures /\ exc' # NoExc) => scene' = scene]_vars
    /\ [][(call.fn \in Procedures /\ exc # NoExc) =>
             /\ log' = log
             /\ exc' = exc
             /\ Len(stack') < Len(stack)]_vars

C4_Witness ==
    /\ Done("Lab_colourspace_cube")
    /\ exc.type = "RuntimeError"
    /\ exc.cmd = "MItMeshVertex.setPosition"
    /\ CallsOf("setAttr") # {}
    /\ Len(log) > 20

\* The functions that use the host API, for the caller's arguments.
UsesHost ==
    \/ call.fn \in {"get_dag_path", "get_mpoint", "get_shapes"} \cup Procedures
    \/ call.fn = "set_attributes" /\ call.v.attributes # <<>>

UsesOpenMaya ==
    call.fn \in {"get_dag_path", "get_mpoint", "RGB_identity_cube",
                 "Lab_colourspace_cube"}

\* C5 as stated: whatever the import of the host API raises is swallowed, the
\* load completes with both host names unbound, and every function that uses
\* the host API then fails without having issued a host command.
C5_AnyExceptionSwallowed ==
    importExc # "none" =>
        /\ phase # "load_failed"
        /\ bound = {}
        /\ (phase = "done" /\ UsesHost) => exc # NoExc /\ log = <<>>

\* C5, amended: an ImportError raised by the import is swallowed and the load
\* completes, with OpenMaya unbound (and cmds too when its own import
\* raised); any other exception propagates and the load fails.  With both
\* names unbound every function that uses the host API fails with a NameError
\* and issues no host command; with OpenMaya alone unbound the functions that
\* reach an OpenMaya call fail.
C5_ImportErrorSwallowed ==
    /\ importExc = "ImportError" =>
          /\ phase \in {"loaded", "running", "done"}
          /\ "OpenMaya" \notin bound
          /\ phase = "loaded" => exc = NoExc
    /\ importExc \notin {"none", "ImportError"} =>
          /\ phase = "load_failed"
          /\ exc.type = importExc
    /\ importExc = "none" /\ phase # "unloaded" =>
          bound = {"cmds", "OpenMaya"}
    /\ (phase = "done" /\ bound = {} /\ UsesHost) =>
          /\ exc.type = "NameError"
          /\ log = <<>>
          /\ scene = InitialScene
          /\ ret = NoValue
    /\ (phase = "done" /\ "OpenMaya" \notin bound /\ UsesOpenMaya) =>
          /\ exc # NoExc
          /\ ret = NoValue

C5_Witness ==
    /\ Done("Lab_colourspace_cube")
    /\ importExc = "ImportError"
    /\ bound = {}
    /\ exc.type = "NameError"

\* C6 as stated: get_dag_path, get_mpoint and get_shapes return exactly what
\* the host query produced, for every host answer.
C6_PassThrough ==
    (phase = "done" /\ exc = NoExc
     /\ call.fn \in {"get_dag_path", "get_mpoint", "get_shapes"}) =>
        ret = Last(log).result

\* C6, amended: get_dag_path and get_mpoint return what the host produced;
\* get_shapes makes one listRelatives query with fullPath=full_path,
\* shapes=True, noIntermediate=no_intermediate and returns its result, except
\* that the host's no-result answer (None) is returned as the empty list.
C6_PassThroughButNone ==
    /\ (Returned("get_dag_path") \/ Returned("get_mpoint")) =>
          ret = Last(log).result
    /\ Returned("get_mpoint") =>
          ret.p = SubSeq(call.v.point, 1, 3) /\ Len(log) = 1
    /\ Returned("get_dag_path") =>
          /\ Last(log).cmd = "MSelectionList.getDagPath"
          /\ ret.l = <<call.v.node>>
    /\ Returned("get_shapes") =>
          /\ Len(log) = 1
          /\ log[1].cmd = "listRelatives"
          /\ log[1].args = <<call.v.object, call.v.full_path, TRUE,
                             call.v.no_intermediate>>
          /\ ret = IF log[1].result = PyNone THEN PyList(<<>>)
                   ELSE log[1].result

C6_Witness ==
    /\ Returned("get_shapes")
    /\ log[1].result = PyNone
    /\ ret = PyList(<<>>)

\* The k-th smallest index of a set of log indices.
Nth(S, k) == CHOOSE i \in S : Cardinality({j \in S : j <= i}) = k

\* The world-space vertices of the unit cube of `density` divisions once it
\* is translated by 0.5 on each axis, lengths in 1/(2 * density).
IdentityPoints(density) ==
    LET u == 2 * density
        pts == PolyCubePoints(u, 1, 1, 1, density, density, density)
    IN [i \in DOMAIN pts |->
           <<pts[i][1] + density, pts[i][2] + density, pts[i][3] + density>>]

Translations ==
    {i \in CallsOf("setAttr") :
        log[i].args[1][2] \in {"translateX", "translateY", "translateZ"}}

\* C7: RGB_identity_cube makes one setVertexColors call; for the mesh's N
\* vertices its colour and index arrays both have length N, index i is i, and
\* colour i is the world position of vertex i read after the three
\* translations of 0.5 were set and before makeIdentity froze the transform,
\* so every component lies in [0, 1] (0..unit); the value returned is the
\* result of the final rename of the cube to name.
C7_IdentityCube ==
    Returned("RGB_identity_cube") =>
        LET sv == CallsOf("MFnMesh.setVertexColors")
            k == CHOOSE i \in sv : TRUE
            colours == log[k].args[1]
            indices == log[k].args[2]
            world == IdentityPoints(call.v.density)
            mesh == MeshOf(scene, ret.s)
            N == Len(scene.nodes[mesh].points)
        IN /\ Cardinality(sv) = 1
           /\ N = 6 * call.v.density * call.v.density + 2
           /\ Len(colours) = N
           /\ Len(indices) = N
           /\ \A i \in 1..N : indices[i] = i - 1
           /\ \A i \in 1..N : colours[i] = world[i]
           /\ \A i \in 1..N : \A c \in 1..3 : colours[i][c] \in 0..unit
           /\ \A i \in 1..N : scene.nodes[mesh].colours[i - 1] = world[i]
           /\ Cardinality(Translations) = 3
           /\ \A t \in Translations :
                 /\ 2 * log[t].args[2] = unit
                 /\ \A g \in CallsOf("MFnMesh.getPoints") : t < g
           /\ \A g \in CallsOf("MFnMesh.getPoints") :
                 \A m \in CallsOf("makeIdentity") : g < m
           /\ CallsOf("MFnMesh.getPoints") # {}
           /\ CallsOf("makeIdentity") # {}
           /\ Last(log).cmd = "rename"
           /\ Last(log).args[2] = call.v.name
           /\ ret = Last(log).result

C7_Witness ==
    /\ Returned("RGB_identity_cube")
    /\ call.v.density = 2
    /\ call.v.name = "obj"
    /\ ret = PyStr("obj1")
    /\ \E i \in CallsOf("MFnMesh.setVertexColors") :
           <<4, 4, 4>> \in Range(log[i].args[1])

Rotations ==
    {i \in CallsOf("setAttr") : log[i].args[1][2] \in {"rotateX", "rotateZ"}}

\* C8: Lab_colourspace_cube first runs RGB_identity_cube(colourspace.name,
\* density); its loop then visits the vertices 0, 1, ..., N - 1 once each, in
\* that order, and ends; vertex i is moved to RGB_to_Lab of the position it
\* had before the loop; rotateX = 180 and rotateZ = 90 are set and the
\* transform frozen only after the loop; the value returned is the name
\* RGB_identity_cube returned.
C8_EachVertexOnce ==
    call.fn = "Lab_colourspace_cube" =>
        LET sp == CallsOf("MItMeshVertex.setPosition")
            before == IdentityPoints(call.v.density)
            N == Len(before)
            rn == CallsOf("rename")
        IN /\ Cardinality(sp) <= N
           /\ \A i \in sp :
                 /\ log[i].args[1] = Cardinality({j \in sp : j < i})
                 /\ log[i].args[2] =
                       py_tuple(np_ravel(
                           RGB_to_Lab(before[log[i].args[1] + 1],
                                      call.v.colourspace)))
                 /\ \A r \in Rotations : r > i
                 /\ \E r \in rn : r < i
           /\ log # <<>> =>
                 /\ log[1].cmd = "polyCube"
                 /\ log[1].args[4] = call.v.density
           /\ \A r \in rn : log[r].args[2] = call.v.colourspace.name
           /\ (phase = "done" /\ exc = NoExc) =>
                 /\ Cardinality(sp) = N
                 /\ Cardinality(CallsOf("MItMeshVertex.isDone")) = N + 1
                 /\ Cardinality(rn) = 1
                 /\ ret = log[Nth(rn, 1)].result
                 /\ Cardinality(Rotations) = 2
                 /\ \E r \in Rotations : log[r].args =
                        <<Plug(ret.s, "rotateX"), 180>>
                 /\ \E r \in Rotations : log[r].args =
                        <<Plug(ret.s, "rotateZ"), 90>>
                 /\ Last(log).cmd = "makeIdentity"
                 /\ Last(log).args = <<ret.s>>
                 /\ \A r \in Rotations : r < Len(log)
                 /\ \A i \in 1..N :
                       scene.nodes[MeshOf(scene, ret.s)].points[i] =
                          RotZ(RotX(py_tuple(RGB_to_Lab(before[i],
                                                        call.v.colourspace)),
                                    180), 90)

C8_Witness ==
    /\ Returned("Lab_colourspace_cube")
    /\ call.v.density = 2
    /\ Cardinality(CallsOf("MItMeshVertex.setPosition")) = 26
    /\ ret = PyStr("sRGB")

LCS == "Lab_coordinates_system_representation"

Curves == {n \in DOMAIN scene.nodes : scene.nodes[n].type = "nurbsCurve"}

\* C9: when no host call fails, Lab_coordinates_system_representation returns
\* True and the group it created has exactly five children, in this order:
\* the label meshes minus_a, plus_a, minus_b, plus_b, one per round of the
\* loop, each renamed right before it is parented, and then the cube renamed
\* grid; the group is renamed only after the five are parented; and in each
\* round the text curves of the label are deleted before the mesh is
\* parented.
C9_FiveChildrenInOrder ==
    call.fn = LCS =>
        LET par == CallsOf("parent")
            txt == CallsOf("textCurves")
            del == {i \in CallsOf("delete") : log[i].args # <<>>}
        IN /\ \A k \in 1..Cardinality(par) :
                 LET q == Nth(par, k)
                 IN /\ k <= 5
                    /\ q > 1
                    /\ log[q - 1].cmd = "rename"
                    /\ log[q].args = <<log[q - 1].result.s, log[1].result.s>>
                    /\ log[q - 1].args[2] =
                          (IF k <= 4 THEN Labels[k].name ELSE "grid")
                    /\ k <= 4 =>
                          /\ Cardinality(txt) >= k
                          /\ \E d \in del :
                                /\ Nth(txt, k) < d
                                /\ d < q
                                /\ log[d].args = <<log[Nth(txt, k)].result.l[1]>>
                                /\ log[d].ok
           /\ \A r \in CallsOf("rename") :
                 log[r].args[2] = LCS => Cardinality(par) = 5 /\ r = Len(log)
           /\ (Running /\ Top.fn = LCS /\ Top.pc = "parent_mesh") => Curves = {}
           /\ (phase = "done" /\ exc = NoExc) =>
                 /\ ret = PyTrue
                 /\ Cardinality(par) = 5
                 /\ Last(log).cmd = "rename"
                 /\ Last(log).args = <<log[1].result.s, LCS>>
                 /\ log[1].cmd = "createNode"
                 /\ Last(log).result.s \in DOMAIN scene.nodes
                 /\ scene.nodes[Last(log).result.s].children =
                       <<"minus_a", "plus_a", "minus_b", "plus_b", "grid">>
                 /\ Curves = {}

C9_Witness ==
    /\ Returned(LCS)
    /\ LCS \in DOMAIN scene.nodes
    /\ Len(scene.nodes[LCS].children) = 5
    /\ Cardinality(CallsOf("textCurves")) = 4

United == {i \in CallsOf("polyUnite") : log[i].ok}

\* The setAttr calls of round k, on the mesh its polyUnite returned (Maya
\* hands the name out again once the mesh is renamed).
LabelSetAttrs(k) ==
    LET mesh == log[Nth(United, k)].result.l[1]
    IN {i \in CallsOf("setAttr") :
           /\ log[i].args[1][1] = mesh
           /\ Nth(United, k) < i
           /\ k < Cardinality(United) => i < Nth(United, k + 1)}

SevenAttributes ==
    {"translateX", "translateZ", "rotateX", "scaleX", "scaleY",
     "overrideEnabled", "overrideDisplayType"}

\* C10: in each of the four rounds the mapping handed to set_attributes for
\* the label mesh has exactly seven entries, one per attribute of
\* SevenAttributes (scaleY, written twice, is one entry, 50); seven setAttr
\* calls are issued per label, scaleY among them once; and scaleZ is never
\* set, on a label mesh or otherwise, during the whole procedure.
C10_SevenAttributesNoScaleZ ==
    call.fn = LCS =>
        /\ \A i \in CallsOf("setAttr") : log[i].args[1][2] # "scaleZ"
        /\ \A q \in DOMAIN scene.attrs : q[2] # "scaleZ"
        /\ (Len(stack) = 2 /\ stack[1].pc = "listRelatives_parent") =>
              LET d == stack[2].v.attributes
              IN /\ Len(d) = 7
                 /\ {d[i][1] : i \in DOMAIN d} =
                       {Plug(stack[1].v.mesh, a) : a \in SevenAttributes}
                 /\ \A i \in DOMAIN d : d[i][1][2] = "scaleY" => d[i][2] = 50
        /\ \A k \in 1..Cardinality(United) :
              /\ Cardinality(LabelSetAttrs(k)) <= 7
              /\ Cardinality({i \in LabelSetAttrs(k) :
                                 log[i].args[1][2] = "scaleY"}) <= 1
              /\ \A i \in LabelSetAttrs(k) :
                    log[i].args[1][2] = "scaleY" => log[i].args[2] = 50
        /\ (phase = "done" /\ exc = NoExc) =>
              /\ Cardinality(United) = 4
              /\ Cardinality(CallsOf("setAttr")) = 4 + 4 * 7
              /\ CallsOf("setAttr") \ UNION {LabelSetAttrs(k) : k \in 1..4}
                    = {i \in CallsOf("setAttr") : i < Nth(United, 1)}
              /\ \A k \in 1..4 :
                    /\ Cardinality(LabelSetAttrs(k)) = 7
                    /\ {log[i].args[1][2] : i \in LabelSetAttrs(k)} =
                          SevenAttributes

C10_Witness ==
    /\ Returned(LCS)
    /\ Cardinality(CallsOf("setAttr")) = 32
    /\ \E i \in CallsOf("setAttr") : log[i].args[1][2] = "scaleY"

=============================================================================
